---------------------------- MODULE Spec2Model ----------------------------
(***************************************************************************)
(* Model of rsdiff's pixel comparison engine (src/src/lib.rs): diff_rgba,  *)
(* its 8-lane batched path, the scalar remainder path, the anti-aliasing   *)
(* classifier and the grey / marker compositor.                            *)
(*                                                                         *)
(* The code computes in IEEE-754 binary32 (f32).  The model carries every  *)
(* f32 value as <<s, e, m>> meaning (-1)^s * m * 2^e with m = 0 (zero) or  *)
(* 2^23 <= m < 2^24, and every f32 operation rounds to nearest, ties to    *)
(* even, as the hardware does.  A packed u32 pixel is carried as its four  *)
(* bytes <<r, g, b, a>> (little-endian from_ne_bytes).                     *)
(***************************************************************************)
EXTENDS Integers, Sequences, FiniteSets, TLC

(***************************************************************************)
(* binary32 arithmetic                                                     *)
(***************************************************************************)
P23 == 2^23
P24 == 2^24

F32Zero == <<0, 0, 0>>

\* number of bits of m, 0 <= m < 2^31, searched from the top
RECURSIVE BitLenFrom(_, _)
BitLenFrom(m, k) == IF m >= 2^(k - 1) THEN k ELSE BitLenFrom(m, k - 1)

BitLen(m) ==
  IF m = 0 THEN 0
  ELSE IF m >= 2^24 THEN BitLenFrom(m, 31)
  ELSE IF m >= 2^8 THEN BitLenFrom(m, 24)
  ELSE BitLenFrom(m, 8)

\* Round the exact value (-1)^s * (m + f) * 2^e to binary32, where 0 < m < 2^31
\* and f is a lost fraction in [0,1) that is non-zero iff sticky.
F32Round(s, e, m, sticky) ==
  LET L == BitLen(m) IN
  IF L <= 24 THEN <<s, e - (24 - L), m * 2^(24 - L)>>
  ELSE LET sh   == L - 24
           q    == m \div 2^sh
           r    == m % 2^sh
           half == 2^(sh - 1)
           up   == r > half \/ (r = half /\ (sticky \/ q % 2 = 1))
           q1   == IF up THEN q + 1 ELSE q
       IN IF q1 = P24 THEN <<s, e + sh + 1, P23>> ELSE <<s, e + sh, q1>>

\* `n as f32` for an integer 0 <= n < 2^31
F32OfInt(n) == IF n = 0 THEN F32Zero ELSE F32Round(0, 0, n, FALSE)

F32Neg(a) == IF a[3] = 0 THEN a ELSE <<1 - a[1], a[2], a[3]>>

\* magnitude comparison of two non-zero or zero values
MagLt(a, b) ==
  IF a[3] = 0 THEN b[3] # 0
  ELSE IF b[3] = 0 THEN FALSE
  ELSE a[2] < b[2] \/ (a[2] = b[2] /\ a[3] < b[3])

F32Lt(a, b) ==
  IF a[1] = 1 /\ b[1] = 0 THEN a[3] # 0 \/ b[3] # 0
  ELSE IF a[1] = 0 /\ b[1] = 1 THEN FALSE
  ELSE IF a[1] = 0 THEN MagLt(a, b)
  ELSE MagLt(b, a)

F32Gt(a, b) == F32Lt(b, a)

F32Eq(a, b) == (a[3] = 0 /\ b[3] = 0) \/ a = b

\* a + b with |a| >= |b|, both non-zero
AddOrdered(a, b) ==
  LET d    == a[2] - b[2]
      big  == a[3] * 64
      sml  == b[3] * 64
      far  == d >= 31
      b1   == IF far THEN 0 ELSE sml \div 2^d
      lost == IF far THEN TRUE ELSE sml % 2^d # 0
  IN IF a[1] = b[1]
       THEN F32Round(a[1], a[2] - 6, big + b1, lost)
       ELSE LET diff == IF lost THEN big - b1 - 1 ELSE big - b1
            IN IF diff = 0 /\ ~lost THEN F32Zero
               ELSE F32Round(a[1], a[2] - 6, diff, lost)

F32Add(a, b) ==
  IF a[3] = 0 THEN b
  ELSE IF b[3] = 0 THEN a
  ELSE IF MagLt(a, b) THEN AddOrdered(b, a) ELSE AddOrdered(a, b)

F32Sub(a, b) == F32Add(a, F32Neg(b))

F32Mul(a, b) ==
  IF a[3] = 0 \/ b[3] = 0 THEN F32Zero
  ELSE LET ah  == a[3] \div 4096
           al  == a[3] % 4096
           bh  == b[3] \div 4096
           bl  == b[3] % 4096
           mid == ah * bl + al * bh
           los == al * bl + (mid % 4096) * 4096
           lo  == los % P24
           hi  == ah * bh + (mid \div 4096) + (los \div P24)
       IN F32Round((a[1] + b[1]) % 2, a[2] + b[2] + 18,
                   hi * 64 + (lo \div 262144), lo % 262144 # 0)

\* long division: extend the quotient q of n / d bit by bit to 27 bits
RECURSIVE DivBits(_, _, _, _)
DivBits(q, rem, d, e) ==
  IF q >= 67108864 THEN F32Round(0, e, q, rem # 0)
  ELSE DivBits(2 * q + (IF 2 * rem >= d THEN 1 ELSE 0), (2 * rem) % d, d, e - 1)

\* the binary32 nearest to n / d, for integers 0 <= n < 2^30, 0 < d < 2^28:
\* an f32 division of two exactly represented integers, or a decimal literal
F32Ratio(n, d) == IF n = 0 THEN F32Zero ELSE DivBits(n \div d, n % d, d, 0)

F32Max(a, b) == IF F32Lt(a, b) THEN b ELSE a
F32Min(a, b) == IF F32Lt(b, a) THEN b ELSE a

\* `x as u32` / `x as u8`: truncation toward zero, saturating
F32Trunc(a) ==
  IF a[3] = 0 \/ a[1] = 1 THEN 0
  ELSE IF a[2] >= 0 THEN (IF a[2] > 6 THEN 1073741824 ELSE a[3] * 2^a[2])
  ELSE IF a[2] <= -24 THEN 0
  ELSE a[3] \div 2^(-a[2])

F32AsU8(a) == LET t == F32Trunc(a) IN IF t > 255 THEN 255 ELSE t


F255 == F32OfInt(255)

\* the constant 1.0 / 255.0 of line 655
RECIP_255 == F32Ratio(1, 255)

(***************************************************************************)
(* Constants of the colour model                                           *)
(***************************************************************************)
Y_R == F32Ratio(29889531, 100000000)
Y_G == F32Ratio(58662247, 100000000)
Y_B == F32Ratio(11448223, 100000000)

I_R == F32Ratio(59597799, 100000000)
I_G == F32Ratio(27417610, 100000000)
I_B == F32Ratio(32180189, 100000000)

Q_R == F32Ratio(21147017, 100000000)
Q_G == F32Ratio(52261711, 100000000)
Q_B == F32Ratio(31114694, 100000000)

YIQ_Y_WEIGHT == F32Ratio(5053, 10000)
YIQ_I_WEIGHT == F32Ratio(299, 1000)
YIQ_Q_WEIGHT == F32Ratio(1957, 10000)

SIMD_WIDTH == 8

\* f32::MAX and f32::MIN
F32_MAX == <<0, 104, 16777215>>
F32_MIN == <<1, 104, 16777215>>

\* DiffOptions::default() colours
aa_color   == <<255, 255, 0>>
diff_color == <<255, 0, 255>>

(***************************************************************************)
(* Buffers.  An image is a function from pixel index (byte offset / 4) to  *)
(* the pixel's four bytes; a byte offset pos always is a multiple of 4.    *)
(* A slice whose length is not a multiple of 4 ends in a pixel of fewer    *)
(* than four bytes; reading that pixel indexes past the end of the slice.  *)
(***************************************************************************)
InBounds(img, pos) ==
  pos >= 0 /\ (pos \div 4) \in DOMAIN img /\ Len(img[pos \div 4]) = 4

\* an index outside the slice panics; the read then yields no usable value
\* and the step that made it is flagged (see the oob fields below)
Poison == <<0, 0, 0, 0>>

load_pixel_u32(img, pos) == IF InBounds(img, pos) THEN img[pos \div 4] ELSE Poison

R(p) == p[1]
G(p) == p[2]
B(p) == p[3]
A(p) == p[4]

(***************************************************************************)
(* Colour model, scalar                                                    *)
(***************************************************************************)
\* one channel of the white-background blend of the scalar delta
blend_white(c, a) ==
  IF a = 0 THEN F255
  ELSE IF a = 255 THEN F32OfInt(c)
  ELSE F32Add(F255, F32Mul(F32Sub(F32OfInt(c), F255), F32Ratio(a, 255)))

yiq_y(r, g, b) == F32Add(F32Add(F32Mul(r, Y_R), F32Mul(g, Y_G)), F32Mul(b, Y_B))
yiq_i(r, g, b) == F32Sub(F32Sub(F32Mul(r, I_R), F32Mul(g, I_G)), F32Mul(b, I_B))
yiq_q(r, g, b) == F32Add(F32Sub(F32Mul(r, Q_R), F32Mul(g, Q_G)), F32Mul(b, Q_B))

\* weighted_sum with the differences not squared
weighted_sum_linear(y_diff, i_diff, q_diff) ==
  F32Add(F32Add(F32Mul(YIQ_Y_WEIGHT, y_diff), F32Mul(YIQ_I_WEIGHT, i_diff)),
         F32Mul(YIQ_Q_WEIGHT, q_diff))

weighted_sum(y_diff, i_diff, q_diff) ==
  F32Add(F32Add(F32Mul(F32Mul(YIQ_Y_WEIGHT, y_diff), y_diff),
                F32Mul(F32Mul(YIQ_I_WEIGHT, i_diff), i_diff)),
         F32Mul(F32Mul(YIQ_Q_WEIGHT, q_diff), q_diff))

\* lines 450-455, from the blended colours
yiq_delta(r1, g1, b1, r2, g2, b2) ==
  weighted_sum(F32Sub(yiq_y(r1, g1, b1), yiq_y(r2, g2, b2)),
               F32Sub(yiq_i(r1, g1, b1), yiq_i(r2, g2, b2)),
               F32Sub(yiq_q(r1, g1, b1), yiq_q(r2, g2, b2)))

calculate_pixel_color_delta_fast(pixel_a, pixel_b) ==
  yiq_delta(blend_white(R(pixel_a), A(pixel_a)),
            blend_white(G(pixel_a), A(pixel_a)),
            blend_white(B(pixel_a), A(pixel_a)),
            blend_white(R(pixel_b), A(pixel_b)),
            blend_white(G(pixel_b), A(pixel_b)),
            blend_white(B(pixel_b), A(pixel_b)))

(***************************************************************************)
(* Colour model, 8 lanes.  A lane mask selects with blend(t, f).           *)
(***************************************************************************)
simd_blend(mask, t, f) == IF mask THEN t ELSE f

\* lines 304-338: one channel of one lane
simd_blend_lane(cf, af, alpha) ==
  simd_blend(F32Eq(af, F32Zero), F255,
    simd_blend(F32Eq(af, F255), cf, F32Add(F255, F32Mul(F32Sub(cf, F255), alpha))))

simd_blend_white(c, a) == simd_blend_lane(F32OfInt(c), F32OfInt(a), F32Ratio(a, 255))

\* lines 341-351, one lane
simd_yiq_delta(r1, g1, b1, r2, g2, b2) ==
  weighted_sum(F32Sub(yiq_y(r1, g1, b1), yiq_y(r2, g2, b2)),
               F32Sub(yiq_i(r1, g1, b1), yiq_i(r2, g2, b2)),
               F32Sub(yiq_q(r1, g1, b1), yiq_q(r2, g2, b2)))

calculate_8_pixel_color_deltas_fast(pixels_a, pixels_b) ==
  [i \in 1..SIMD_WIDTH |->
    simd_yiq_delta(simd_blend_white(R(pixels_a[i]), A(pixels_a[i])),
                   simd_blend_white(G(pixels_a[i]), A(pixels_a[i])),
                   simd_blend_white(B(pixels_a[i]), A(pixels_a[i])),
                   simd_blend_white(R(pixels_b[i]), A(pixels_b[i])),
                   simd_blend_white(G(pixels_b[i]), A(pixels_b[i])),
                   simd_blend_white(B(pixels_b[i]), A(pixels_b[i])))]

load_8_pixels_u32(img, base_pos) ==
  [i \in 1..SIMD_WIDTH |-> load_pixel_u32(img, base_pos + (i - 1) * 4)]

(***************************************************************************)
(* Luma delta of the anti-aliasing classifier                              *)
(***************************************************************************)
white_luma == F32Mul(F255, F32Add(F32Add(Y_R, Y_G), Y_B))

\* lines 506-524: the luma of one pixel
brightness_lane(r, g, b, a, alpha) ==
  simd_blend(F32Eq(a, F32Zero), white_luma,
    simd_blend(F32Eq(a, F255),
      F32Add(F32Add(F32Mul(r, Y_R), F32Mul(g, Y_G)), F32Mul(b, Y_B)),
      F32Add(F32Add(
        F32Mul(F32Add(F255, F32Mul(F32Sub(r, F255), alpha)), Y_R),
        F32Mul(F32Add(F255, F32Mul(F32Sub(g, F255), alpha)), Y_G)),
        F32Mul(F32Add(F255, F32Mul(F32Sub(b, F255), alpha)), Y_B))))

brightness(p) ==
  brightness_lane(F32OfInt(R(p)), F32OfInt(G(p)), F32OfInt(B(p)), F32OfInt(A(p)),
                  F32Ratio(A(p), 255))

calculate_brightness_delta_fast(pixel_a, pixel_b) ==
  F32Sub(brightness(pixel_a), brightness(pixel_b))

(***************************************************************************)
(* Anti-aliasing classifier                                                *)
(***************************************************************************)
Max(a, b) == IF a > b THEN a ELSE b
Min(a, b) == IF a < b THEN a ELSE b

\* is_edge of (x, y)
is_edge(x, y, width, height) ==
  x = 0 \/ x = width - 1 \/ y = 0 \/ y = height - 1

\* clamp_kernel without the clamping
clamp_kernel_unclamped(x, y, width, height) ==
  <<x - 1, y - 1, x + 1, y + 1>>

\* the border-clamped 3x3 kernel bounds <<x0, y0, x1, y1>>
clamp_kernel(x, y, width, height) ==
  <<Max(x - 1, 0), Max(y - 1, 0), Min(x + 1, width - 1), Min(y + 1, height - 1)>>

\* the cells of `for adj_y in y0..=y1 { for adj_x in x0..=x1 {` in loop order
kernel_cells(k) ==
  LET nx == Max(k[3] - k[1] + 1, 0)
      ny == Max(k[4] - k[2] + 1, 0)
  IN [n \in 1..(nx * ny) |-> <<k[1] + ((n - 1) % nx), k[2] + ((n - 1) \div nx)>>]

\* lines 629-635: the neighbour at adj_pos
count_sibling(acc, same, inside) ==
  [zeroes |-> IF same THEN acc.zeroes + 1 ELSE acc.zeroes,
   ret    |-> same /\ acc.zeroes + 1 >= 3,
   oob    |-> acc.oob \/ ~inside]

\* the loop of has_many_siblings_optimized from cell n on; acc = [zeroes, ret, oob]
RECURSIVE siblings_loop(_, _, _, _, _, _, _, _)
siblings_loop(img, x, y, width, base_color, cells, n, acc) ==
  IF n > Len(cells) \/ acc.ret THEN acc
  ELSE IF acc.zeroes >= 3 \/ (x = cells[n][1] /\ y = cells[n][2])
    THEN siblings_loop(img, x, y, width, base_color, cells, n + 1, acc)
  ELSE siblings_loop(img, x, y, width, base_color, cells, n + 1,
         count_sibling(acc,
           load_pixel_u32(img, cells[n][2] * width * 4 + cells[n][1] * 4) = base_color,
           InBounds(img, cells[n][2] * width * 4 + cells[n][1] * 4)))

\* [ret |-> the returned bool, oob |-> some read was outside the slice]
has_many_siblings_optimized(img, x, y, width, height) ==
  IF x > width - 1 \/ y > height - 1 THEN [ret |-> FALSE, oob |-> FALSE]
  ELSE IF (IF is_edge(x, y, width, height) THEN 1 ELSE 0) >= 3
    THEN [ret |-> TRUE, oob |-> FALSE]
  ELSE siblings_loop(img, x, y, width, load_pixel_u32(img, (y * width + x) * 4),
                     kernel_cells(clamp_kernel(x, y, width, height)), 1,
                     [zeroes |-> IF is_edge(x, y, width, height) THEN 1 ELSE 0,
                      ret    |-> FALSE,
                      oob    |-> ~InBounds(img, (y * width + x) * 4)])

\* track_extremes taking the last neighbour on ties
track_extremes_last(acc, delta, adj_x, adj_y) ==
  [acc EXCEPT
     !.min_delta = IF ~F32Gt(delta, acc.min_delta) THEN delta ELSE acc.min_delta,
     !.min_coord = IF ~F32Gt(delta, acc.min_delta) THEN <<adj_x, adj_y>> ELSE acc.min_coord,
     !.max_delta = IF ~F32Lt(delta, acc.max_delta) THEN delta ELSE acc.max_delta,
     !.max_coord = IF ~F32Lt(delta, acc.max_delta) THEN <<adj_x, adj_y>> ELSE acc.max_coord]

\* lines 574-582: a neighbour whose bytes differ from the centre's
track_extremes(acc, delta, adj_x, adj_y) ==
  [acc EXCEPT
     !.min_delta = IF F32Lt(delta, acc.min_delta) THEN delta ELSE acc.min_delta,
     !.min_coord = IF F32Lt(delta, acc.min_delta) THEN <<adj_x, adj_y>> ELSE acc.min_coord,
     !.max_delta = IF F32Gt(delta, acc.max_delta) THEN delta ELSE acc.max_delta,
     !.max_coord = IF F32Gt(delta, acc.max_delta) THEN <<adj_x, adj_y>> ELSE acc.max_coord]

\* lines 565-583: the neighbour at adj_pos
visit_neighbour(acc, base_color, adjacent_color, adj_x, adj_y) ==
  IF base_color = adjacent_color
    THEN [acc EXCEPT !.zeroes = acc.zeroes + 1, !.returned = acc.zeroes + 1 >= 3]
    ELSE track_extremes(acc, calculate_brightness_delta_fast(base_color, adjacent_color),
                        adj_x, adj_y)

\* the 3x3 loop of is_pixel_antialiased_optimized from cell n on;
\* acc = [zeroes, min_delta, max_delta, min_coord, max_coord, returned, oob]
RECURSIVE antialiased_loop(_, _, _, _, _, _, _, _)
antialiased_loop(base_img, x, y, width, base_color, cells, n, acc) ==
  IF n > Len(cells) \/ acc.returned THEN acc
  ELSE IF acc.zeroes >= 3 \/ (x = cells[n][1] /\ y = cells[n][2])
    THEN antialiased_loop(base_img, x, y, width, base_color, cells, n + 1, acc)
  ELSE antialiased_loop(base_img, x, y, width, base_color, cells, n + 1,
         visit_neighbour(
           [acc EXCEPT !.oob = acc.oob \/ ~InBounds(base_img, cells[n][2] * width * 4 + cells[n][1] * 4)],
           base_color,
           load_pixel_u32(base_img, cells[n][2] * width * 4 + cells[n][1] * 4),
           cells[n][1], cells[n][2]))

\* the state of the 3x3 loop of is_pixel_antialiased_optimized when it ends
antialiased_kernel(base_img, x, y, width, height) ==
  antialiased_loop(base_img, x, y, width, load_pixel_u32(base_img, (y * width + x) * 4),
    kernel_cells(clamp_kernel(x, y, width, height)), 1,
    [zeroes    |-> IF is_edge(x, y, width, height) THEN 1 ELSE 0,
     min_delta |-> F32_MAX, max_delta |-> F32_MIN,
     min_coord |-> <<0, 0>>, max_coord |-> <<0, 0>>,
     returned  |-> FALSE,
     oob       |-> ~InBounds(base_img, (y * width + x) * 4)])

\* lines 592-598: the four sibling tests, short-circuiting as || and && do
siblings_verdict(a_min, a_max, b_min, b_max, oob) ==
  [ret |-> (a_min.ret \/ a_max.ret) /\ (b_min.ret \/ b_max.ret),
   oob |-> \/ oob
           \/ a_min.oob
           \/ (~a_min.ret /\ a_max.oob)
           \/ ((a_min.ret \/ a_max.ret) /\ b_min.oob)
           \/ ((a_min.ret \/ a_max.ret) /\ ~b_min.ret /\ b_max.oob)]

\* lines 587-598, k the state the 3x3 loop ended in
antialiased_verdict(k, base_img, comp_img, width, height) ==
  IF k.returned \/ k.zeroes >= 3 \/ k.min_delta = F32_MAX \/ k.max_delta = F32_MIN
    THEN [ret |-> FALSE, oob |-> k.oob]
    ELSE siblings_verdict(
           has_many_siblings_optimized(base_img, k.min_coord[1], k.min_coord[2], width, height),
           has_many_siblings_optimized(base_img, k.max_coord[1], k.max_coord[2], width, height),
           has_many_siblings_optimized(comp_img, k.min_coord[1], k.min_coord[2], width, height),
           has_many_siblings_optimized(comp_img, k.max_coord[1], k.max_coord[2], width, height),
           k.oob)

\* [ret |-> the returned bool, oob |-> some read was outside a slice]
is_pixel_antialiased_optimized(base_img, comp_img, x, y, width, height) ==
  antialiased_verdict(antialiased_kernel(base_img, x, y, width, height),
                      base_img, comp_img, width, height)

(***************************************************************************)
(* Compositor                                                              *)
(***************************************************************************)
write_color(out, pos, color) ==
  [out EXCEPT ![pos \div 4] = <<color[1], color[2], color[3], 255>>]

\* line 656, from the truncated luma y and the source alpha a
gray_blend(y, alpha, a) ==
  F32AsU8(F32Min(F32Max(F32Add(F255, F32Mul(F32Mul(F32Sub(y, F255), alpha), a)),
                        F32Zero), F255))

\* the grey value draw_gray_pixel_fast stores (lines 653-656)
gray_value(p, alpha) ==
  gray_blend(F32OfInt(F32Trunc(F32Add(F32Add(F32Mul(F32OfInt(R(p)), Y_R),
                                             F32Mul(F32OfInt(G(p)), Y_G)),
                                      F32Mul(F32OfInt(B(p)), Y_B)))),
             alpha,
             F32Mul(F32OfInt(A(p)), RECIP_255))

gray_pixel(val) == <<val, val, val, 255>>

draw_gray_pixel_fast(img, i, alpha, out) ==
  [out EXCEPT ![i \div 4] = gray_pixel(gray_value(load_pixel_u32(img, i), alpha))]

\* lines 387-389, one lane
gray_blend_8(y_simd, alpha_blend, alpha_norm) ==
  F32AsU8(F32Min(F32Max(
    F32Add(F255, F32Mul(F32Mul(F32Sub(y_simd, F255), alpha_blend), alpha_norm)),
    F32Zero), F255))

\* the grey value one lane of draw_8_gray_pixels_fast stores (lines 383-395)
gray_value_8(p, alpha_blend) ==
  gray_blend_8(F32Add(F32Add(F32Mul(F32OfInt(R(p)), Y_R),
                             F32Mul(F32OfInt(G(p)), Y_G)),
                      F32Mul(F32OfInt(B(p)), Y_B)),
               alpha_blend,
               F32Ratio(A(p), 255))

draw_8_gray_pixels_fast(img, base_pos, alpha_blend, out) ==
  [q \in DOMAIN out |->
     IF q >= base_pos \div 4 /\ q < base_pos \div 4 + SIMD_WIDTH
       THEN gray_pixel(gray_value_8(load_pixel_u32(img, q * 4), alpha_blend))
       ELSE out[q]]

(***************************************************************************)
(* Scan driver.  st = [output, diff_count, render, oob] is what one call    *)
(* of diff_rgba has built so far: the output buffer, the running count,    *)
(* and two records of the run that the code does not keep: render[q], the  *)
(* render states written to pixel q in order, and oob, whether a read fell *)
(* outside a slice.  The options are [threshold, include_aa, alpha], with   *)
(* threshold and alpha as the decimal literal <<n, d>> meaning n / d; o is *)
(* what lines 96-111 compute from them before the scan.                    *)
(***************************************************************************)
opt_f32(lit) == F32Ratio(lit[1], lit[2])

\* max_delta_of growing with the distance of the threshold from 1
max_delta_of_reversed(threshold) ==
  F32Mul(F32OfInt(35215),
         F32Mul(F32Sub(F32OfInt(1), threshold), F32Sub(F32OfInt(1), threshold)))

\* line 106
max_delta_of(threshold) == F32Mul(F32OfInt(35215), F32Mul(threshold, threshold))

\* lines 96-111
prepare(options) ==
  [include_aa  |-> options.include_aa,
   max_delta   |-> max_delta_of(opt_f32(options.threshold)),
   alpha_blend |-> opt_f32(options.alpha)]

\* lines 101-103
initial_st(width, height) ==
  [output     |-> [q \in 0..(width * height - 1) |-> <<0, 0, 0, 0>>],
   diff_count |-> 0,
   render     |-> [q \in 0..(width * height - 1) |-> <<>>],
   oob        |-> FALSE]

put_gray(st, img1, pos, o) ==
  [st EXCEPT !.output = draw_gray_pixel_fast(img1, pos, o.alpha_blend, st.output),
             !.render[pos \div 4] = Append(@, "unchanged")]

\* put_aa counting the pixel as a difference
put_aa_counted(st, pos) ==
  [st EXCEPT !.output = write_color(st.output, pos, aa_color),
             !.diff_count = st.diff_count + 1,
             !.render[pos \div 4] = Append(@, "aa")]

put_aa(st, pos) ==
  [st EXCEPT !.output = write_color(st.output, pos, aa_color),
             !.render[pos \div 4] = Append(@, "aa")]

\* put_diff choosing the colour by the running count
put_diff_running(st, pos) ==
  [st EXCEPT !.output = write_color(st.output, pos,
                          IF st.diff_count = 0 THEN diff_color ELSE aa_color),
             !.diff_count = st.diff_count + 1,
             !.render[pos \div 4] = Append(@, "diff")]

put_diff(st, pos) ==
  [st EXCEPT !.output = write_color(st.output, pos, diff_color),
             !.diff_count = st.diff_count + 1,
             !.render[pos \div 4] = Append(@, "diff")]

\* lines 182-196 and 221-230, aa the classifier's answer
put_classified(st, pos, aa) ==
  IF aa.ret THEN put_aa([st EXCEPT !.oob = st.oob \/ aa.oob], pos)
  ELSE put_diff([st EXCEPT !.oob = st.oob \/ aa.oob], pos)

\* put_marker consulting the classifier whatever include_aa says
put_marker_always(img1, img2, width, height, o, st, pos, x, y) ==
  put_classified(st, pos,
    is_pixel_antialiased_optimized(img1, img2, x, y, width, height))

\* lines 181-196 and 220-230: a pixel over the threshold
put_marker(img1, img2, width, height, o, st, pos, x, y) ==
  IF o.include_aa
    THEN put_classified(st, pos,
           is_pixel_antialiased_optimized(img1, img2, x, y, width, height))
    ELSE put_diff(st, pos)

\* compare_pixel with the threshold test written >= instead of >
compare_pixel_ge(img1, img2, width, height, o, st, pos, x, y, pixel1, pixel2) ==
  IF pixel1 = pixel2 THEN put_gray(st, img1, pos, o)
  ELSE IF ~F32Lt(calculate_pixel_color_delta_fast(pixel1, pixel2), o.max_delta)
    THEN put_marker(img1, img2, width, height, o, st, pos, x, y)
  ELSE put_gray(st, img1, pos, o)

\* lines 214-234, the two pixels loaded
compare_pixel(img1, img2, width, height, o, st, pos, x, y, pixel1, pixel2) ==
  IF pixel1 = pixel2 THEN put_gray(st, img1, pos, o)
  ELSE IF F32Gt(calculate_pixel_color_delta_fast(pixel1, pixel2), o.max_delta)
    THEN put_marker(img1, img2, width, height, o, st, pos, x, y)
  ELSE put_gray(st, img1, pos, o)

\* scalar_pixel reading the second image one pixel further on
scalar_pixel_shifted(img1, img2, width, height, o, st, x, y) ==
  compare_pixel(img1, img2, width, height, o, st,
    y * width * 4 + x * 4, x, y,
    load_pixel_u32(img1, y * width * 4 + x * 4),
    load_pixel_u32(img2, y * width * 4 + x * 4 + 4))

\* lines 207-235: one pixel of the scalar remainder loop
scalar_pixel(img1, img2, width, height, o, st, x, y) ==
  compare_pixel(img1, img2, width, height, o,
    [st EXCEPT !.oob = \/ st.oob
                       \/ ~InBounds(img1, y * width * 4 + x * 4)
                       \/ ~InBounds(img2, y * width * 4 + x * 4)],
    y * width * 4 + x * 4, x, y,
    load_pixel_u32(img1, y * width * 4 + x * 4),
    load_pixel_u32(img2, y * width * 4 + x * 4))

\* lines 174-199: lane i of a group that is not all exact matches
simd_lane(img1, img2, width, height, o, st, pixel_pos, x, y, is_exact_match, is_diff) ==
  IF is_exact_match THEN put_gray(st, img1, pixel_pos, o)
  ELSE IF is_diff THEN put_marker(img1, img2, width, height, o, st, pixel_pos, x, y)
  ELSE put_gray(st, img1, pixel_pos, o)

\* lines 173-200: lanes i..7
RECURSIVE simd_lanes(_, _, _, _, _, _, _, _, _, _, _, _)
simd_lanes(img1, img2, width, height, o, st, x, y, pixels1, pixels2, deltas, i) ==
  IF st.oob \/ i >= SIMD_WIDTH THEN st
  ELSE simd_lanes(img1, img2, width, height, o,
         simd_lane(img1, img2, width, height, o, st,
                   y * width * 4 + x * 4 + i * 4, x + i, y,
                   pixels1[i + 1] = pixels2[i + 1],
                   F32Gt(deltas[i + 1], o.max_delta)),
         x, y, pixels1, pixels2, deltas, i + 1)

all_exact(img1, img2, base_pos) ==
  load_8_pixels_u32(img1, base_pos) = load_8_pixels_u32(img2, base_pos)

\* lines 147-149: the render states of a group drawn by draw_8_gray_pixels_fast
render_8(render, base_pos) ==
  [q \in DOMAIN render |->
     IF q >= base_pos \div 4 /\ q < base_pos \div 4 + SIMD_WIDTH
       THEN Append(render[q], "unchanged")
       ELSE render[q]]

\* lines 145-201, the two groups loaded
compare_group(img1, img2, width, height, o, st, x, y, base_pos, pixels1, pixels2) ==
  IF pixels1 = pixels2
    THEN [st EXCEPT
            !.output = draw_8_gray_pixels_fast(img1, base_pos, o.alpha_blend, st.output),
            !.render = render_8(st.render, base_pos)]
    ELSE simd_lanes(img1, img2, width, height, o, st, x, y, pixels1, pixels2,
                    calculate_8_pixel_color_deltas_fast(pixels1, pixels2), 0)

\* lines 137-204: one group of 8 pixels
simd_group(img1, img2, width, height, o, st, x, y) ==
  compare_group(img1, img2, width, height, o,
    [st EXCEPT !.oob = \/ st.oob
                       \/ \E i \in 0..(SIMD_WIDTH - 1) :
                            \/ ~InBounds(img1, y * width * 4 + x * 4 + i * 4)
                            \/ ~InBounds(img2, y * width * 4 + x * 4 + i * 4)],
    x, y, y * width * 4 + x * 4,
    load_8_pixels_u32(img1, y * width * 4 + x * 4),
    load_8_pixels_u32(img2, y * width * 4 + x * 4))

\* lines 132-237 from (x, y) on, to the end of the scan or to the panic of
\* a read outside a slice
RECURSIVE scan_from(_, _, _, _, _, _, _, _)
scan_from(img1, img2, width, height, o, st, x, y) ==
  IF st.oob \/ y >= height THEN st
  ELSE IF x + SIMD_WIDTH <= width
    THEN scan_from(img1, img2, width, height, o,
                   simd_group(img1, img2, width, height, o, st, x, y), x + SIMD_WIDTH, y)
  ELSE IF x < width
    THEN scan_from(img1, img2, width, height, o,
                   scalar_pixel(img1, img2, width, height, o, st, x, y), x + 1, y)
  ELSE scan_from(img1, img2, width, height, o, st, 0, y + 1)

\* the whole call, lines 89-245
diff_rgba(img1, img2, width, height, options) ==
  scan_from(img1, img2, width, height, prepare(options), initial_st(width, height), 0, 0)

(***************************************************************************)
(* Inputs                                                                  *)
(***************************************************************************)
Black     == <<0, 0, 0, 255>>
White     == <<255, 255, 255, 255>>
LightGrey == <<245, 245, 245, 255>>
HalfBlack == <<0, 0, 0, 128>>
ClearRed  == <<255, 0, 0, 0>>

Palette     == {Black, White, LightGrey, HalfBlack, ClearRed}
Backgrounds == {White}

MaxHeight == 3
Widths    == {1, 2, SIMD_WIDTH + 1}
Dims      == {d \in Widths \X (1..MaxHeight) : TRUE}

Thresholds == {<<0, 1>>, <<1, 10>>, <<97, 100>>}
Alphas     == {<<1, 10>>}
Options    == [threshold : Thresholds, include_aa : BOOLEAN, alpha : Alphas]

\* the pixels an input image may paint: the first and the last
Probes(width, height) == {0, width * height - 1}

Uniform(width, height, c) == [q \in 0..(width * height - 1) |-> c]
Paint(img, q, c) == [img EXCEPT ![q] = c]

(***************************************************************************)
(* The scan as a state machine                                             *)
(***************************************************************************)
VARIABLES img1, img2, width, height, opts, o, x, y, st, pc, cli, aa, rows

vars == <<img1, img2, width, height, opts, o, x, y, st, pc, cli, aa, rows>>

\* no call of the classifier singled out (see the classifier's specification)
no_call == [fn |-> "none"]

\* the rows scanned by the one loop of diff_rgba, not handed to workers
no_rows == [workers |-> 0]

\* diff_rgba called by a user of the library, not through the wrappers
direct_call == [entry |-> "diff_rgba"]

Init ==
  \E d \in Dims, bg \in Backgrounds, c1 \in Palette, c2 \in Palette :
  \E q1 \in Probes(d[1], d[2]), q2 \in Probes(d[1], d[2]) :
    /\ width = d[1]
    /\ height = d[2]
    /\ img1 = Paint(Uniform(d[1], d[2], bg), q1, c1)
    /\ img2 = Paint(Uniform(d[1], d[2], bg), q2, c2)
    /\ opts \in Options
    /\ o = prepare(opts)
    /\ x = 0
    /\ y = 0
    /\ st = initial_st(d[1], d[2])
    /\ pc = "scan"
    /\ cli = direct_call
    /\ aa = no_call
    /\ rows = no_rows

\* Advance stepping one pixel too far inside a row
Advance_skip(nx) ==
  IF nx >= width THEN x' = 0 /\ y' = y + 1 ELSE x' = nx + 1 /\ y' = y

\* where the scan stands after the step that leaves column nx of row y
Advance(nx) ==
  IF nx >= width THEN x' = 0 /\ y' = y + 1 ELSE x' = nx /\ y' = y

\* a read outside a slice panics: the call unwinds and returns no DiffResult
after_reads(s) == IF s.oob THEN "panic" ELSE "scan"

\* lines 137-149, 203: a group of 8 exact matches
SimdExact ==
  /\ pc = "scan" /\ y < height /\ x + SIMD_WIDTH <= width
  /\ all_exact(img1, img2, y * width * 4 + x * 4)
  /\ st' = simd_group(img1, img2, width, height, o, st, x, y)
  /\ pc' = after_reads(st')
  /\ Advance(x + SIMD_WIDTH)
  /\ UNCHANGED <<img1, img2, width, height, opts, o, cli, aa, rows>>

\* lines 137-145, 150-203: a group of 8 with some pixel that differs
SimdMixed ==
  /\ pc = "scan" /\ y < height /\ x + SIMD_WIDTH <= width
  /\ ~all_exact(img1, img2, y * width * 4 + x * 4)
  /\ st' = simd_group(img1, img2, width, height, o, st, x, y)
  /\ pc' = after_reads(st')
  /\ Advance(x + SIMD_WIDTH)
  /\ UNCHANGED <<img1, img2, width, height, opts, o, cli, aa, rows>>

\* lines 207-236: a pixel of the remainder
Scalar ==
  /\ pc = "scan" /\ y < height /\ x + SIMD_WIDTH > width /\ x < width
  /\ st' = scalar_pixel(img1, img2, width, height, o, st, x, y)
  /\ pc' = after_reads(st')
  /\ Advance(x + 1)
  /\ UNCHANGED <<img1, img2, width, height, opts, o, cli, aa, rows>>

\* lines 239-244
Return ==
  /\ pc = "scan" /\ y >= height
  /\ pc' = "done"
  /\ UNCHANGED <<img1, img2, width, height, opts, o, x, y, st, cli, aa, rows>>

Next == SimdExact \/ SimdMixed \/ Scalar \/ Return

Spec == Init /\ [][Next]_vars

(***************************************************************************)
(* The same call on buffers whose lengths need not be width * height * 4   *)
(***************************************************************************)
ByteLen(img) ==
  IF DOMAIN img = {} THEN 0
  ELSE 4 * (Cardinality(DOMAIN img) - 1) + Len(img[Cardinality(DOMAIN img) - 1])

\* the bytes a longer buffer holds after the image
Surplus == <<0, 0, 0, 255>>

\* the first n bytes of img followed by Surplus pixels
Resize(img, n) ==
  [q \in 0..((n + 3) \div 4 - 1) |->
     SubSeq(IF q \in DOMAIN img THEN img[q] ELSE Surplus,
            1, Min(4, n - 4 * q))]

\* byte lengths around the declared n: a pixel short, two bytes short,
\* exact, one byte long, a pixel long
Lengths(n) == {n - 4, n - 2, n, n + 1, n + 4}

InitLen ==
  \E d \in Dims, c1 \in {Black, White}, c2 \in {Black, White} :
  \E q1 \in Probes(d[1], d[2]), q2 \in Probes(d[1], d[2]) :
  \E n1 \in Lengths(d[1] * d[2] * 4), n2 \in Lengths(d[1] * d[2] * 4) :
    /\ width = d[1]
    /\ height = d[2]
    /\ img1 = Resize(Paint(Uniform(d[1], d[2], White), q1, c1), n1)
    /\ img2 = Resize(Paint(Uniform(d[1], d[2], White), q2, c2), n2)
    /\ opts \in {op \in Options : op.threshold = <<1, 10>>}
    /\ o = prepare(opts)
    /\ x = 0
    /\ y = 0
    /\ st = initial_st(d[1], d[2])
    /\ pc = "scan"
    /\ cli = direct_call
    /\ aa = no_call
    /\ rows = no_rows

SpecLen == InitLen /\ [][Next]_vars

(***************************************************************************)
(* The wrappers: diff_images and diff_bytes of lib.rs and main of main.rs. *)
(* What the file system, the decoder and the encoder answer is fixed when  *)
(* the run starts: cli.decoded1 says whether the first image decodes, and  *)
(* if so img1 holds its RGBA8 pixels and cli.dims1 its <<width, height>>;  *)
(* cli.save_ok says whether writing the output file succeeds.  cli.calls   *)
(* counts the invocations of diff_rgba; pc is "idle" until it is invoked.  *)
(***************************************************************************)
CliDims == {1, 2} \X {1, 2}

no_result == [ok |-> FALSE, error |-> "none"]

InitCli ==
  \E d1 \in CliDims, d2 \in CliDims, c2 \in {Black, White} :
  \E entry \in {"main", "diff_images", "diff_bytes"} :
  \E env \in [args_ok : BOOLEAN, exists1 : BOOLEAN, exists2 : BOOLEAN,
              decoded1 : BOOLEAN, decoded2 : BOOLEAN, save_ok : BOOLEAN,
              json : BOOLEAN, output_path : {"none", "out.png"}] :
    /\ entry # "main" =>
         /\ env.args_ok /\ env.exists1 /\ env.exists2 /\ env.save_ok
         /\ ~env.json /\ env.output_path = "none"
    /\ img1 = Paint(Uniform(d1[1], d1[2], White), 0, Black)
    /\ img2 = Paint(Uniform(d2[1], d2[2], White), 0, c2)
    /\ width = 0
    /\ height = 0
    /\ opts \in {op \in Options : op.threshold = <<1, 10>>}
    /\ o = prepare(opts)
    /\ x = 0
    /\ y = 0
    /\ st = initial_st(0, 0)
    /\ pc = "idle"
    /\ aa = no_call
    /\ rows = no_rows
    /\ cli = [entry |-> entry, at |-> IF entry = "main" THEN "main" ELSE "decode",
              env |-> env, dims1 |-> d1, dims2 |-> d2, calls |-> 0,
              result |-> no_result, report |-> "none", file |-> "none",
              exit |-> "none"]

\* main.rs 8-15, 34-41: the CliResult of a failure
error_result(msg) ==
  [success |-> FALSE, diff_count |-> 0, total_pixels |-> 0,
   diff_percentage |-> <<0, 1>>, output_path |-> "none", error |-> msg,
   to |-> IF cli.env.json THEN "stdout" ELSE "stderr"]

\* main.rs 44-56 and the like: print the failure and exit(1)
fail(msg) ==
  cli' = [cli EXCEPT !.at = "exit", !.report = error_result(msg), !.exit = 1]

\* main.rs 33-57
Usage ==
  /\ cli.entry = "main" /\ cli.at = "main"
  /\ ~cli.env.args_ok
  /\ fail("usage")
  /\ UNCHANGED <<img1, img2, width, height, opts, o, x, y, st, pc, aa, rows>>

\* main.rs 86-120
MissingFile ==
  /\ cli.entry = "main" /\ cli.at = "main"
  /\ cli.env.args_ok
  /\ ~cli.env.exists1 \/ ~cli.env.exists2
  /\ fail(IF ~cli.env.exists1 THEN "Image 1 does not exist"
                              ELSE "Image 2 does not exist")
  /\ UNCHANGED <<img1, img2, width, height, opts, o, x, y, st, pc, aa, rows>>

\* main.rs 122-135: the call of diff_images
CallDiffImages ==
  /\ cli.entry = "main" /\ cli.at = "main"
  /\ cli.env.args_ok /\ cli.env.exists1 /\ cli.env.exists2
  /\ cli' = [cli EXCEPT !.at = "decode"]
  /\ UNCHANGED <<img1, img2, width, height, opts, o, x, y, st, pc, aa, rows>>

\* lib.rs 675-676 and 706-711: `?` on a failed open or decode
DecodeError ==
  /\ cli.at = "decode"
  /\ ~cli.env.decoded1 \/ ~cli.env.decoded2
  /\ cli' = [cli EXCEPT !.at = "returned",
                        !.result = [ok |-> FALSE, error |-> "decode"]]
  /\ UNCHANGED <<img1, img2, width, height, opts, o, x, y, st, pc, aa, rows>>

\* dimensions_differ comparing the widths only
dimensions_differ_width(dims1, dims2) == dims1[1] # dims2[1]

\* lib.rs 679 and 714
dimensions_differ(dims1, dims2) == dims1[1] # dims2[1] \/ dims1[2] # dims2[2]

\* lib.rs 679-688 and 714-723
DimensionMismatch ==
  /\ cli.at = "decode"
  /\ cli.env.decoded1 /\ cli.env.decoded2
  /\ dimensions_differ(cli.dims1, cli.dims2)
  /\ cli' = [cli EXCEPT !.at = "returned",
                        !.result = [ok |-> FALSE,
                                    error |-> "Images must have equal dimensions"]]
  /\ UNCHANGED <<img1, img2, width, height, opts, o, x, y, st, pc, aa, rows>>

\* lib.rs 239-244 seen by the caller
diff_result(s, w, h) ==
  [ok |-> TRUE, diff_count |-> s.diff_count, output |-> s.output,
   width |-> w, height |-> h]

\* lib.rs 690-695 and 725-730; a panic inside diff_rgba ends the process
CallDiffRgba ==
  /\ cli.at = "decode"
  /\ cli.env.decoded1 /\ cli.env.decoded2
  /\ ~dimensions_differ(cli.dims1, cli.dims2)
  /\ width' = cli.dims1[1]
  /\ height' = cli.dims1[2]
  /\ st' = diff_rgba(img1, img2, cli.dims1[1], cli.dims1[2], opts)
  /\ pc' = IF st'.oob THEN "panic" ELSE "done"
  /\ cli' = IF st'.oob
              THEN [cli EXCEPT !.at = "exit", !.calls = cli.calls + 1, !.exit = 101]
              ELSE [cli EXCEPT !.at = "returned", !.calls = cli.calls + 1,
                               !.result = diff_result(st', width', height')]
  /\ UNCHANGED <<img1, img2, opts, o, x, y, aa, rows>>

\* main.rs 137-138, 166-173
cli_result(result, path) ==
  [success |-> TRUE, diff_count |-> result.diff_count,
   total_pixels |-> result.width * result.height,
   diff_percentage |-> <<result.diff_count * 100, result.width * result.height>>,
   output_path |-> path, error |-> "none",
   to |-> "stdout"]

\* main.rs 136-187: Ok, the output saved if a path was given
MainOk ==
  /\ cli.entry = "main" /\ cli.at = "returned"
  /\ cli.result.ok
  /\ cli.env.output_path = "none" \/ cli.env.save_ok
  /\ cli' = [cli EXCEPT !.at = "exit",
                        !.file = IF cli.env.output_path = "none" THEN "none"
                                 ELSE cli.result.output,
                        !.report = cli_result(cli.result, cli.env.output_path),
                        !.exit = 0]
  /\ UNCHANGED <<img1, img2, width, height, opts, o, x, y, st, pc, aa, rows>>

\* main.rs 141-161: Ok, but saving the output failed
MainSaveFailed ==
  /\ cli.entry = "main" /\ cli.at = "returned"
  /\ cli.result.ok
  /\ cli.env.output_path # "none" /\ ~cli.env.save_ok
  /\ fail("Failed to save output")
  /\ UNCHANGED <<img1, img2, width, height, opts, o, x, y, st, pc, aa, rows>>

\* main.rs 188-204
MainErr ==
  /\ cli.entry = "main" /\ cli.at = "returned"
  /\ ~cli.result.ok
  /\ fail(cli.result.error)
  /\ UNCHANGED <<img1, img2, width, height, opts, o, x, y, st, pc, aa, rows>>

NextCli ==
  \/ Usage \/ MissingFile \/ CallDiffImages
  \/ DecodeError \/ DimensionMismatch \/ CallDiffRgba
  \/ MainOk \/ MainSaveFailed \/ MainErr

SpecCli == InitCli /\ [][NextCli]_vars

(***************************************************************************)
(* The classifier on its own.  The scan stands at a pixel (x, y) that is   *)
(* over the threshold with include_aa on (lines 219-224, 180-190), calls   *)
(* is_pixel_antialiased_optimized, and aa records the call and its answer; *)
(* then one of the calls of has_many_siblings_optimized that the           *)
(* classifier made (lines 595-598) is singled out and recorded the same    *)
(* way.  Images are 3x3 stencils of three colours, or their 2x2 corner.    *)
(***************************************************************************)
AaPalette == {White, Black, HalfBlack, ClearRed}
AaDims    == {<<2, 1>>, <<2, 2>>, <<3, 3>>}

Stencils ==
  {<<1, 2, 1,
     3, 1, 1,
     3, 3, 1>>,
   <<1, 1, 1,
     1, 2, 1,
     1, 1, 3>>,
   <<1, 1, 2,
     1, 2, 3,
     2, 3, 3>>,
   <<2, 1, 1,
     1, 1, 3,
     1, 3, 3>>}

\* the w x h corner of stencil s painted with the colours c[1], c[2], c[3]
Stencil(s, c, w, h) ==
  [q \in 0..(w * h - 1) |-> c[s[(q \div w) * 3 + (q % w) + 1]]]

\* the second images tried with a first image a, q the pixel compared
Companions(a, w, h, q) ==
  {Paint(img, q, d) : img \in {a, Uniform(w, h, White), Uniform(w, h, Black)},
                      d \in {White, Black}}

aa_options == [threshold |-> <<1, 10>>, include_aa |-> TRUE, alpha |-> <<1, 10>>]

\* lines 214-221: the classifier is consulted for this pixel pair
consulted(pixel1, pixel2, opt) ==
  /\ opt.include_aa
  /\ pixel1 # pixel2
  /\ F32Gt(calculate_pixel_color_delta_fast(pixel1, pixel2), opt.max_delta)

InitAA ==
  \E d \in AaDims, s \in Stencils, c \in AaPalette \X AaPalette \X AaPalette :
  \E q \in 0..(d[1] * d[2] - 1) :
  \E b \in Companions(Stencil(s, c, d[1], d[2]), d[1], d[2], q) :
    /\ width = d[1]
    /\ height = d[2]
    /\ img1 = Stencil(s, c, d[1], d[2])
    /\ img2 = b
    /\ opts = aa_options
    /\ o = prepare(aa_options)
    /\ x = q % d[1]
    /\ y = q \div d[1]
    /\ consulted(img1[q], img2[q], o)
    /\ st = initial_st(d[1], d[2])
    /\ pc = "consult"
    /\ cli = direct_call
    /\ aa = no_call
    /\ rows = no_rows

\* lines 221-224 (182-190): the call of the classifier
Classify ==
  /\ pc = "consult"
  /\ aa' = [fn  |-> "is_pixel_antialiased_optimized",
            ret |-> is_pixel_antialiased_optimized(img1, img2, x, y, width, height).ret]
  /\ pc' = "classified"
  /\ UNCHANGED <<img1, img2, width, height, opts, o, x, y, st, cli, rows>>

\* lines 595-598: the calls of the sibling test that are evaluated, given
\* the answers a_min, a_max, b_min of the first three; k the state the 3x3
\* loop ended in
sibling_calls(k, a_min, a_max, b_min) ==
  {<<"base", k.min_coord>>}
    \cup (IF ~a_min THEN {<<"base", k.max_coord>>} ELSE {})
    \cup (IF a_min \/ a_max THEN {<<"comp", k.min_coord>>} ELSE {})
    \cup (IF (a_min \/ a_max) /\ ~b_min THEN {<<"comp", k.max_coord>>} ELSE {})

\* the calls of has_many_siblings_optimized made by the classifier's call
calls_made(k) ==
  IF k.returned \/ k.zeroes >= 3 \/ k.min_delta = F32_MAX \/ k.max_delta = F32_MIN
    THEN {}
    ELSE sibling_calls(k,
           has_many_siblings_optimized(img1, k.min_coord[1], k.min_coord[2], width, height).ret,
           has_many_siblings_optimized(img1, k.max_coord[1], k.max_coord[2], width, height).ret,
           has_many_siblings_optimized(img2, k.min_coord[1], k.min_coord[2], width, height).ret)

\* lines 595-598: one call of the sibling test
Sibling ==
  /\ pc = "classified"
  /\ \E call \in calls_made(antialiased_kernel(img1, x, y, width, height)) :
       aa' = [fn  |-> "has_many_siblings_optimized",
              img |-> call[1], x |-> call[2][1], y |-> call[2][2],
              ret |-> has_many_siblings_optimized(
                        IF call[1] = "base" THEN img1 ELSE img2,
                        call[2][1], call[2][2], width, height).ret]
  /\ pc' = "counted"
  /\ UNCHANGED <<img1, img2, width, height, opts, o, x, y, st, cli, rows>>

NextAA == Classify \/ Sibling

SpecAA == InitAA /\ [][NextAA]_vars

(***************************************************************************)
(* The scan with its rows split among workers.  The body of the row loop   *)
(* (lines 133-236) is the code's; each worker takes rows of its own, in    *)
(* any order, runs the body on them one step at a time, writes the shared  *)
(* output buffer and counts locally; the local counts are added when every *)
(* row is finished.                                                        *)
(***************************************************************************)
Workers == {1, 2}
RowDims == {<<1, 3>>, <<2, 2>>, <<SIMD_WIDTH + 1, 2>>}
idle    == [row |-> -1, x |-> 0]

InitRows ==
  \E d \in RowDims, c1 \in {White, HalfBlack}, c2 \in {Black, ClearRed}, c3 \in {Black, White} :
  \E owner \in [0..(d[2] - 1) -> Workers] :
    /\ width = d[1]
    /\ height = d[2]
    /\ img1 = Paint(Uniform(d[1], d[2], White), 0, c1)
    /\ img2 = Paint(Paint(Uniform(d[1], d[2], White), 0, c2), d[1] * d[2] - 1, c3)
    /\ opts \in {op \in Options : op.threshold = <<1, 10>>}
    /\ o = prepare(opts)
    /\ x = 0
    /\ y = 0
    /\ st = initial_st(d[1], d[2])
    /\ pc = "rows"
    /\ cli = direct_call
    /\ aa = no_call
    /\ rows = [workers |-> Cardinality(Workers),
               owner   |-> owner,
               cur     |-> [w \in Workers |-> idle],
               local   |-> [w \in Workers |-> 0],
               order   |-> <<>>]

\* the scan state worker w works on: the shared output, its own count
local_st(w) == [st EXCEPT !.diff_count = rows.local[w]]

\* worker w has made the step that gave s and now stands at column nx
Stepped(w, s, nx) ==
  /\ st' = [s EXCEPT !.diff_count = st.diff_count]
  /\ rows' = [rows EXCEPT !.local[w] = s.diff_count, !.cur[w].x = nx]
  /\ pc' = IF s.oob THEN "panic" ELSE "rows"
  /\ UNCHANGED <<img1, img2, width, height, opts, o, x, y, cli, aa>>

\* line 133: a worker begins a row of its own that no one has begun
TakeRow ==
  /\ pc = "rows"
  /\ \E w \in Workers, r \in 0..(height - 1) :
       /\ rows.cur[w] = idle
       /\ rows.owner[r] = w
       /\ \A i \in DOMAIN rows.order : rows.order[i] # r
       /\ rows' = [rows EXCEPT !.cur[w] = [row |-> r, x |-> 0],
                               !.order = Append(@, r)]
  /\ UNCHANGED <<img1, img2, width, height, opts, o, x, y, st, pc, cli, aa>>

\* lines 137-204: a worker's next group of 8
RowGroup ==
  /\ pc = "rows"
  /\ \E w \in Workers :
       /\ rows.cur[w] # idle
       /\ rows.cur[w].x + SIMD_WIDTH <= width
       /\ Stepped(w, simd_group(img1, img2, width, height, o, local_st(w),
                                rows.cur[w].x, rows.cur[w].row),
                  rows.cur[w].x + SIMD_WIDTH)

\* lines 207-236: a worker's next pixel of the remainder
RowPixel ==
  /\ pc = "rows"
  /\ \E w \in Workers :
       /\ rows.cur[w] # idle
       /\ rows.cur[w].x + SIMD_WIDTH > width
       /\ rows.cur[w].x < width
       /\ Stepped(w, scalar_pixel(img1, img2, width, height, o, local_st(w),
                                  rows.cur[w].x, rows.cur[w].row),
                  rows.cur[w].x + 1)

\* line 237: a worker's row ends
RowEnd ==
  /\ pc = "rows"
  /\ \E w \in Workers :
       /\ rows.cur[w] # idle
       /\ rows.cur[w].x >= width
       /\ rows' = [rows EXCEPT !.cur[w] = idle]
  /\ UNCHANGED <<img1, img2, width, height, opts, o, x, y, st, pc, cli, aa>>

RECURSIVE SumOver(_, _)
SumOver(f, ws) ==
  IF ws = {} THEN 0
  ELSE LET w == CHOOSE v \in ws : TRUE IN f[w] + SumOver(f, ws \ {w})

\* lines 239-244: every row is finished, the local counts are added
Join ==
  /\ pc = "rows"
  /\ Len(rows.order) = height
  /\ \A w \in Workers : rows.cur[w] = idle
  /\ st' = [st EXCEPT !.diff_count = SumOver(rows.local, Workers)]
  /\ pc' = "joined"
  /\ UNCHANGED <<img1, img2, width, height, opts, o, x, y, cli, aa, rows>>

NextRows == TakeRow \/ RowGroup \/ RowPixel \/ RowEnd \/ Join

SpecRows == InitRows /\ [][NextRows]_vars

(***************************************************************************)
(* Vocabulary of the properties                                            *)
(***************************************************************************)
Pixels       == 0..(width * height - 1)
Written      == {q \in Pixels : st.render[q] # <<>>}
Last(q)      == st.render[q][Len(st.render[q])]
Marked(tag)  == {q \in Written : Last(q) = tag}
IsGrey(px)   == px[1] = px[2] /\ px[2] = px[3] /\ px[4] = 255
Marker(c)    == <<c[1], c[2], c[3], 255>>
WithAa(b)        == [opts EXCEPT !.include_aa = b]
WithThreshold(t) == [opts EXCEPT !.threshold = t]

\* the colour delta of the pixel pair at q, byte-equal pixels counting as 0
PairDelta(q) ==
  IF img1[q] = img2[q] THEN F32Zero
  ELSE calculate_pixel_color_delta_fast(img1[q], img2[q])

\* delta > 35215 * threshold^2
Exceeds(q) == F32Gt(PairDelta(q), max_delta_of(opt_f32(opts.threshold)))

Classifier(q) ==
  is_pixel_antialiased_optimized(img1, img2, q % width, q \div width, width, height).ret

(***************************************************************************)
(* C1: every pixel written gets exactly one render state, chosen by the    *)
(* rule: delta not over 35215 * threshold^2 -> unchanged grey; over it     *)
(* with include_aa and the classifier true -> aa_color; otherwise          *)
(* diff_color.  No pixel over the threshold is rendered unchanged.         *)
(***************************************************************************)
C1_RenderRule ==
  \A q \in Written :
    /\ Len(st.render[q]) = 1
    /\ IF ~Exceeds(q)
         THEN Last(q) = "unchanged" /\ IsGrey(st.output[q])
       ELSE IF opts.include_aa /\ Classifier(q)
         THEN Last(q) = "aa" /\ st.output[q] = Marker(aa_color)
       ELSE Last(q) = "diff" /\ st.output[q] = Marker(diff_color)

\* a finished scan that used all three render states, one of them in a lane
\* of a batched group
C1_Witness ==
  /\ pc = "done"
  /\ Marked("aa") # {} /\ Marked("diff") # {} /\ Marked("unchanged") # {}
  /\ width >= SIMD_WIDTH
  /\ \E q \in Marked("aa") : q % width < SIMD_WIDTH

(***************************************************************************)
(* C2: identity.  Comparing an image with itself gives diff_count 0 and    *)
(* every output pixel is the grey unchanged render of the image's pixel:   *)
(* no aa_color or diff_color pixel appears.                                *)
(***************************************************************************)
GreyRenders(p) ==
  {gray_pixel(gray_value(p, o.alpha_blend)), gray_pixel(gray_value_8(p, o.alpha_blend))}

C2_Identity ==
  (pc = "done" /\ img1 = img2) =>
    /\ st.diff_count = 0
    /\ \A q \in Pixels :
         st.render[q] = <<"unchanged">> /\ st.output[q] \in GreyRenders(img1[q])

\* a finished self-comparison of an image that is not uniform, scanned by
\* batched groups and by the scalar remainder
C2_Witness ==
  /\ pc = "done" /\ img1 = img2
  /\ width > SIMD_WIDTH /\ height > 1
  /\ \E q \in Pixels : img1[q] # img1[0]

(***************************************************************************)
(* C3: symmetry of detection.  Swapping the two images gives the same      *)
(* diff_count, for every options value, include_aa = true included.        *)
(***************************************************************************)
C3_Symmetry ==
  pc = "done" =>
    st.diff_count = diff_rgba(img2, img1, width, height, opts).diff_count

(***************************************************************************)
(* C4: batched vs. scalar equivalence.  The scan writes the same output    *)
(* bytes and the same diff_count as the scalar remainder path applied to   *)
(* every pixel.                                                            *)
(***************************************************************************)
\* lines 207-236 run over whole rows
RECURSIVE scalar_scan_from(_, _, _, _, _, _, _, _)
scalar_scan_from(a, b, w, h, opt, acc, sx, sy) ==
  IF acc.oob \/ sy >= h THEN acc
  ELSE IF sx < w
    THEN scalar_scan_from(a, b, w, h, opt,
                          scalar_pixel(a, b, w, h, opt, acc, sx, sy), sx + 1, sy)
  ELSE scalar_scan_from(a, b, w, h, opt, acc, 0, sy + 1)

SameResult(r) == st.output = r.output /\ st.diff_count = r.diff_count

C4_BatchedEqualsScalar ==
  pc = "done" =>
    SameResult(scalar_scan_from(img1, img2, width, height, o,
                                initial_st(width, height), 0, 0))

(***************************************************************************)
(* C5: opaque black against opaque white, 1x1.  The colour delta is        *)
(* 32857.1328125 (0.5053 * 255^2 in f32), below 35215, so diff_count is 1  *)
(* when 35215 * threshold^2 is below that delta and 0 when it is above:    *)
(* 1 at thresholds 0 and 0.1, 0 at threshold 0.97.                         *)
(***************************************************************************)
BlackWhiteRun ==
  pc = "done" /\ width = 1 /\ height = 1 /\ img1[0] = Black /\ img2[0] = White

BlackWhiteDelta == <<0, -8, 8411426>>

C5_BlackWhite ==
  BlackWhiteRun =>
    /\ calculate_pixel_color_delta_fast(Black, White) = BlackWhiteDelta
    /\ 35215 * opts.threshold[1] * opts.threshold[1]
         <= 32857 * opts.threshold[2] * opts.threshold[2] => st.diff_count = 1
    /\ 35215 * opts.threshold[1] * opts.threshold[1]
         >= 32858 * opts.threshold[2] * opts.threshold[2] => st.diff_count = 0

\* the run at threshold 0.97: below 1, and no difference reported
C5_Witness ==
  BlackWhiteRun /\ opts.threshold = <<97, 100>> /\ st.diff_count = 0

\* C5 as stated: the delta is 35215, so diff_count is 1 at every threshold
\* below 1
C5_AsStated ==
  (BlackWhiteRun /\ opts.threshold[1] < opts.threshold[2]) =>
    /\ calculate_pixel_color_delta_fast(Black, White) = F32OfInt(35215)
    /\ st.diff_count = 1

(***************************************************************************)
(* C6: threshold monotonicity.  With the images and the other options      *)
(* fixed, a larger threshold never gives a larger diff_count.              *)
(***************************************************************************)
Above(t2, t1) == t2[1] * t1[2] > t1[1] * t2[2]

C6_ThresholdMonotone ==
  pc = "done" =>
    \A t2 \in Thresholds :
      Above(t2, opts.threshold) =>
        diff_rgba(img1, img2, width, height, WithThreshold(t2)).diff_count
          <= st.diff_count

\* a finished scan that counted differences of which a larger threshold
\* drops some and keeps some
C6_Witness ==
  /\ pc = "done" /\ st.diff_count = 2
  /\ \E t2 \in Thresholds :
       /\ Above(t2, opts.threshold)
       /\ diff_rgba(img1, img2, width, height, WithThreshold(t2)).diff_count = 1

(***************************************************************************)
(* C7: output completeness.  The output buffer has width * height pixels   *)
(* of 4 bytes; the pixels written so far are exactly those before the scan *)
(* position, each written once; when the scan ends every pixel has been    *)
(* written exactly once and has alpha 255.                                 *)
(***************************************************************************)
C7_OutputCompleteness ==
  /\ DOMAIN st.output = Pixels
  /\ \A q \in Pixels : Len(st.output[q]) = 4 /\ Len(st.render[q]) <= 1
  /\ Written = {q \in Pixels : q < y * width + x}
  /\ pc = "done" =>
       \A q \in Pixels : Len(st.render[q]) = 1 /\ st.output[q][4] = 255

\* the end of a scan that used both the batched path and the remainder path
C7_Witness ==
  /\ pc = "done" /\ width > SIMD_WIDTH /\ height > 1
  /\ Written = Pixels
  /\ Marked("diff") # {}

(***************************************************************************)
(* C8: at every point of the scan diff_count is the number of pixels       *)
(* written so far with the diff marker, so it never exceeds                *)
(* width * height.                                                         *)
(***************************************************************************)
C8_CountIsDiffPixels ==
  /\ st.diff_count = Cardinality(Marked("diff"))
  /\ st.diff_count <= width * height

\* before the scan returns, after an aa pixel and a diff pixel were written
C8_Witness ==
  /\ pc = "scan"
  /\ Marked("aa") # {} /\ Marked("unchanged") # {}
  /\ st.diff_count = 1

(***************************************************************************)
(* C9: anti-aliasing suppression.  The unchanged pixels are the same with  *)
(* include_aa on and off; with it off every pixel over the threshold is a  *)
(* counted diff; with it on exactly the pixels over the threshold that     *)
(* the classifier accepts are aa_color and not counted, so                 *)
(* diff_count(off) = diff_count(on) + number of aa_color pixels.           *)
(***************************************************************************)
AaOffAgrees(off) ==
  /\ \A q \in Pixels :
       /\ off.render[q] \in {<<"unchanged">>, <<"diff">>}
       /\ (off.render[q] = <<"unchanged">>) <=> (Last(q) = "unchanged")
       /\ off.render[q] = <<"diff">> => off.output[q] = Marker(diff_color)
  /\ off.diff_count = st.diff_count + Cardinality(Marked("aa"))

C9_AaSuppression ==
  pc = "done" =>
    IF opts.include_aa
      THEN /\ \A q \in Pixels :
                /\ Last(q) = "aa" <=> (Exceeds(q) /\ Classifier(q))
                /\ Last(q) = "aa" => st.output[q] = Marker(aa_color)
           /\ st.diff_count = Cardinality(Marked("diff"))
           /\ AaOffAgrees(diff_rgba(img1, img2, width, height, WithAa(FALSE)))
      ELSE /\ Marked("aa") = {}
           /\ \A q \in Pixels : Exceeds(q) => Last(q) = "diff"

\* a finished scan with include_aa on that suppressed one pixel and counted
\* another
C9_Witness ==
  /\ pc = "done" /\ opts.include_aa
  /\ Marked("aa") # {} /\ st.diff_count = 1
  /\ diff_rgba(img1, img2, width, height, WithAa(FALSE)).diff_count = 2

(***************************************************************************)
(* C10: border handling.  No read of the classifier or of the sibling test *)
(* falls outside the image, at any pixel position of any image size, and   *)
(* the classifier's answer for a pixel is the same whenever it is asked.   *)
(***************************************************************************)
ReadsInside(px, py) ==
  /\ ~is_pixel_antialiased_optimized(img1, img2, px, py, width, height).oob
  /\ ~has_many_siblings_optimized(img1, px, py, width, height).oob
  /\ ~has_many_siblings_optimized(img2, px, py, width, height).oob

C10_ClassifierInBounds ==
  /\ ~st.oob
  /\ pc = "done" =>
       \A q \in Pixels :
         /\ ReadsInside(q % width, q \div width)
         /\ (opts.include_aa /\ Last(q) # "unchanged") =>
              (Last(q) = "aa") = Classifier(q)

\* a 2x2 image, all border pixels, in which the classifier accepted a pixel
C10_Witness ==
  /\ pc = "done" /\ width = 2 /\ height = 2
  /\ Marked("aa") # {}

(***************************************************************************)
(* C11: fail fast on buffer-size mismatch.  Whenever a buffer is shorter   *)
(* or longer than width * height * 4 bytes the call returns no DiffResult: *)
(* a call that returns had two buffers of exactly the declared length.     *)
(***************************************************************************)
C11_FailFast ==
  pc = "done" =>
    /\ ByteLen(img1) = width * height * 4
    /\ ByteLen(img2) = width * height * 4

(***************************************************************************)
(* C12: dimension mismatch.  When the two decoded images differ in width   *)
(* or height, diff_images and diff_bytes return an error and diff_rgba is  *)
(* never invoked, so there is no DiffResult; the CLI reports success =     *)
(* false, writes no output file and exits with a non-zero status.          *)
(***************************************************************************)
Mismatch ==
  /\ cli.env.decoded1 /\ cli.env.decoded2
  /\ cli.dims1[1] # cli.dims2[1] \/ cli.dims1[2] # cli.dims2[2]

C12_DimensionMismatch ==
  Mismatch =>
    /\ cli.calls = 0 /\ pc = "idle" /\ st = initial_st(0, 0)
    /\ ~cli.result.ok
    /\ cli.file = "none"
    /\ cli.at = "returned" => cli.result.error = "Images must have equal dimensions"
    /\ cli.at = "exit" =>
         /\ cli.report.success = FALSE /\ cli.report.output_path = "none"
         /\ cli.exit # 0

\* the CLI at its exit after diff_images refused two images of equal width
\* and different height, an output path having been given
C12_Witness ==
  /\ Mismatch /\ cli.dims1[1] = cli.dims2[1]
  /\ cli.entry = "main" /\ cli.at = "exit"
  /\ cli.report.error = "Images must have equal dimensions"
  /\ cli.env.output_path = "out.png" /\ cli.env.save_ok
  /\ cli.exit = 1

(***************************************************************************)
(* Vocabulary of the classifier's properties                               *)
(***************************************************************************)
Image(name) == IF name = "base" THEN img1 ELSE img2

\* the non-centre positions of the border-clamped 3x3 neighbourhood of (cx, cy)
Neighbours(cx, cy) ==
  {c \in (Max(cx - 1, 0)..Min(cx + 1, width - 1)) \X (Max(cy - 1, 0)..Min(cy + 1, height - 1)) :
     c # <<cx, cy>>}

At(img, c) == img[c[2] * width + c[1]]

\* the luma delta of the neighbour c from the centre (cx, cy) is exactly zero
ZeroLuma(img, cx, cy, c) ==
  F32Eq(calculate_brightness_delta_fast(At(img, <<cx, cy>>), At(img, c)), F32Zero)

EdgeBias(cx, cy) == IF is_edge(cx, cy, width, height) THEN 1 ELSE 0

\* z of (cx, cy) in img: the edge bias plus the neighbours of zero luma delta
ZeroCount(img, cx, cy) ==
  EdgeBias(cx, cy) + Cardinality({c \in Neighbours(cx, cy) : ZeroLuma(img, cx, cy, c)})

Classified == pc = "classified" /\ aa.fn = "is_pixel_antialiased_optimized"
Counted    == pc = "counted" /\ aa.fn = "has_many_siblings_optimized"

\* C13: whenever the edge bias of (x, y) plus the number of its neighbours in
\* image A whose luma delta from the centre is exactly zero is at least 3,
\* the classifier answers "not anti-aliased", whatever the bytes of those
\* neighbours are.
C13_ZeroCountShortCircuit ==
  Classified /\ ZeroCount(img1, x, y) >= 3 => ~aa.ret

\* the luma of the neighbour c exactly equals the luma of the centre (cx, cy)
SameLuma(img, cx, cy, c) == F32Eq(brightness(At(img, c)), brightness(At(img, <<cx, cy>>)))

\* the edge bias of (cx, cy) plus its neighbours in img of the centre's luma
SiblingCount(img, cx, cy) ==
  EdgeBias(cx, cy) + Cardinality({c \in Neighbours(cx, cy) : SameLuma(img, cx, cy, c)})

\* C14: has_many_siblings_optimized(img, x, y, w, h) answers true exactly when
\* the edge bias of (x, y) plus the number of its neighbours in that image
\* whose luma equals the centre's luma is at least 3.
C14_SiblingTest ==
  Counted => (aa.ret <=> SiblingCount(Image(aa.img), aa.x, aa.y) >= 3)

\* the neighbours of (x, y) in image A that the zero count takes (same bytes
\* as the centre) and those that contribute a luma delta (the others)
Zeroes       == {c \in Neighbours(x, y) : At(img1, c) = At(img1, <<x, y>>)}
Contributors == Neighbours(x, y) \ Zeroes

\* the short-circuit of the classifier's call fired
ShortCircuit == EdgeBias(x, y) + Cardinality(Zeroes) >= 3

\* the signed luma delta of the neighbour c of (x, y) in image A
LumaDelta(c) == calculate_brightness_delta_fast(At(img1, <<x, y>>), At(img1, c))

\* c comes before d in row-major order, or is d
RowMajor(c, d) == c[2] < d[2] \/ (c[2] = d[2] /\ c[1] <= d[1])

\* the first contributor in row-major order of the smallest, largest delta
MinPos ==
  CHOOSE c \in Contributors : \A d \in Contributors :
    F32Lt(LumaDelta(c), LumaDelta(d)) \/ (F32Eq(LumaDelta(c), LumaDelta(d)) /\ RowMajor(c, d))
MaxPos ==
  CHOOSE c \in Contributors : \A d \in Contributors :
    F32Gt(LumaDelta(c), LumaDelta(d)) \/ (F32Eq(LumaDelta(c), LumaDelta(d)) /\ RowMajor(c, d))

\* the sibling test at position c of an image
S(img, c) == has_many_siblings_optimized(img, c[1], c[2], width, height).ret

\* C15: when the short-circuit does not fire and some neighbour contributed a
\* luma delta, the classifier answers (S_A(min) or S_A(max)) and (S_B(min) or
\* S_B(max)), min and max the first neighbours in row-major order of the
\* smallest and the largest signed luma delta; when no neighbour contributed
\* it answers false.
C15_Combination ==
  Classified =>
    /\ Contributors = {} => ~aa.ret
    /\ ~ShortCircuit /\ Contributors # {} =>
         (aa.ret <=> (S(img1, MinPos) \/ S(img1, MaxPos)) /\ (S(img2, MinPos) \/ S(img2, MaxPos)))

\* the answer is true through the second test of both disjunctions, at a max
\* that came first among neighbours of equal delta
C15_Witness ==
  /\ Classified /\ ~ShortCircuit /\ aa.ret
  /\ MinPos # MaxPos
  /\ ~S(img1, MinPos) /\ ~S(img2, MinPos)
  /\ \E d \in Contributors \ {MaxPos} : F32Eq(LumaDelta(d), LumaDelta(MaxPos))

(***************************************************************************)
(* Vocabulary of the row partition's property                              *)
(***************************************************************************)
\* what the workers built is what the call s of diff_rgba returns
SameAsScan(s) ==
  /\ st.output = s.output
  /\ st.diff_count = s.diff_count
  /\ st.render = s.render

\* C16: with the rows split among workers in any partition and interleaved
\* in any order, each worker writing its own rows and counting locally, the
\* output buffer and the sum of the local counts are those of the sequential
\* row-major scan of diff_rgba on the same inputs.
C16_RowPartition ==
  pc = "joined" => SameAsScan(diff_rgba(img1, img2, width, height, opts))

\* both workers counted a difference, and the rows were not begun top-down
C16_Witness ==
  /\ pc = "joined"
  /\ \A w \in Workers : rows.local[w] >= 1
  /\ rows.order[1] # 0

=============================================================================
